---- MODULE Spec2Model ----
(***************************************************************************)
(* State-machine model of the ink! contracts of hannesgao/0xCC.            *)
(*                                                                         *)
(* XcmHandler (src/contracts/xcm_handler/lib.rs): the two-phase            *)
(* cross-chain payment engine.  Every #[ink(message)] is one atomic        *)
(* action; the storage fields are the variables, under their source names. *)
(* Balance (u128) and the u32 payment counter keep their saturating        *)
(* arithmetic, with the maximum representable values scaled down to        *)
(* MaxBalance and MaxCounter.                                              *)
(*                                                                         *)
(* Payment (src/contracts/payment/lib.rs) and BillSplitting                *)
(* (src/contracts/bill_splitting/lib.rs) are modelled the same way; the    *)
(* three contracts never call each other, and each specification runs the  *)
(* messages of one of them.                                                *)
(***************************************************************************)
EXTENDS Integers, FiniteSets, Sequences, TLC

VARIABLES
    payment_senders,             \* Mapping<u32, AccountId>
    payment_recipients,          \* Mapping<u32, AccountId>
    payment_amounts,             \* Mapping<u32, Balance>
    payment_source_chains,       \* Mapping<u32, u32>
    payment_destination_chains,  \* Mapping<u32, u32>
    payment_types,               \* Mapping<u32, u8>
    payment_executed,            \* Mapping<u32, bool>
    payment_timestamps,          \* Mapping<u32, u64>
    supported_chains,            \* Mapping<u32, bool>
    balances,                    \* Mapping<AccountId, Balance>
    payment_counter,             \* u32
    owner,                       \* AccountId
    relayers,                    \* Mapping<u32, AccountId>
    last,                        \* the call just completed: the message and its return value
    events,                      \* the events emitted by the call just completed
    deposited,                   \* history: sum of all transferred values credited by deposit, counted up to MaxDeposited + 1
    discarded,                   \* history: amounts dropped by clamped credits and overwritten pending records
    returned_ids,                \* history: ids returned by successful creates
    settled_ids,                 \* history: ids for which an execute has returned Ok
    owner_configured,            \* history: the supported flag of the owner's last successful
                                 \* configure_chain, per chain
    rebound_from,                \* history: per pending payment id, the relayer its destination
                                 \* chain was bound to before the owner bound a different one
    ledger,                      \* history: per account, deposits made minus payments created
                                 \* as sender plus payments executed as recipient
    any_clamped,                 \* history: some credit has been cut short at the Balance maximum
    funded,                      \* history: accounts that deposited or received an executed payment
    pay_balances,                \* Payment: Mapping<AccountId, Balance>
    transaction_counter,         \* Payment: u32
    request_counter,             \* Payment: u32
    total_supply,                \* Payment: Balance
    pay_owner,                   \* Payment: AccountId
    bill_creators,               \* BillSplitting: Mapping<u32, AccountId>
    bill_amounts,                \* BillSplitting: Mapping<u32, Balance>
    bill_participant_counts,     \* BillSplitting: Mapping<u32, u32>
    bill_paid_counts,            \* BillSplitting: Mapping<u32, u32>
    bill_completed,              \* BillSplitting: Mapping<u32, bool>
    bill_deadlines,              \* BillSplitting: Mapping<u32, u64>
    bill_participants,           \* BillSplitting: Mapping<(u32, u32), AccountId>
    bill_individual_amounts,     \* BillSplitting: Mapping<(u32, u32), Balance>
    bill_payments,               \* BillSplitting: Mapping<(u32, AccountId), bool>
    user_bills,                  \* BillSplitting: Mapping<AccountId, u32>
    bill_counter,                \* BillSplitting: u32
    bill_owner,                  \* BillSplitting: AccountId
    block_time,                  \* the block timestamp seen by BillSplitting
    locked                       \* history: sum of the amounts debited by successful
                                 \* initiate_cross_chain_payment calls of Payment

storage == <<payment_senders, payment_recipients, payment_amounts,
             payment_source_chains, payment_destination_chains, payment_types,
             payment_executed, payment_timestamps, supported_chains, balances,
             payment_counter, owner, relayers>>

history == <<deposited, discarded, returned_ids, settled_ids, owner_configured>>

ledger_history == <<ledger, any_clamped, funded>>

\* the storage of the Payment contract
payment_storage == <<pay_balances, transaction_counter, request_counter, total_supply,
                     pay_owner>>

\* the storage of the BillSplitting contract
bill_storage == <<bill_creators, bill_amounts, bill_participant_counts, bill_paid_counts,
                  bill_completed, bill_deadlines, bill_participants,
                  bill_individual_amounts, bill_payments, user_bills, bill_counter,
                  bill_owner>>

vars == <<payment_senders, payment_recipients, payment_amounts,
          payment_source_chains, payment_destination_chains, payment_types,
          payment_executed, payment_timestamps, supported_chains, balances,
          payment_counter, owner, relayers, last, events,
          deposited, discarded, returned_ids, settled_ids, owner_configured,
          rebound_from, ledger, any_clamped, funded,
          pay_balances, transaction_counter, request_counter, total_supply, pay_owner,
          bill_creators, bill_amounts, bill_participant_counts, bill_paid_counts,
          bill_completed, bill_deadlines, bill_participants, bill_individual_amounts,
          bill_payments, user_bills, bill_counter, bill_owner, block_time, locked>>

----------------------------------------------------------------------------
(* Bounds of the model *)

\* u128::MAX, the largest Balance, scaled down
MaxBalance == 2
\* u32::MAX, the largest payment id / counter value, scaled down
MaxCounter == 1
\* largest amount a caller passes to deposit or create
MaxAmount == MaxBalance
\* the history counts the sum of all deposits exactly up to this: one more than
\* a single balance can hold, so that a credit can be clamped; every deposit is
\* accepted whatever the sum
MaxDeposited == MaxBalance + 1
\* the initial supply of Payment::default(), scaled down
DefaultSupply == 1

----------------------------------------------------------------------------
(* Input domains *)

Accounts == {"alice", "bob", "charlie"}
\* the account that instantiates the contract (the default caller of the tests)
Deployer == "alice"
Amounts == 0..MaxAmount
PaymentIds == 0..MaxCounter
\* Rococo / Westend / Kusama and a chain the constructor does not register
ROCOCO == 1000
WESTEND == 2000
KUSAMA == 3000
UNLISTED == 9999
\* the chains the constructor registers as supported
ConstructorChains == {ROCOCO, WESTEND, KUSAMA}
Chains == ConstructorChains \cup {UNLISTED}
DestinationChains == {WESTEND, UNLISTED}
ConfigChains == {WESTEND}
\* every account deposits; the deployer creates the payments, bob and charlie
\* receive them
Senders == {Deployer}
Recipients == {"bob", "charlie"}
RelayerArgs == {"None", "charlie"}
MessageTypes == {"Payment"}
BlockTimestamps == {0}
\* inputs of the registry specification: two configurable chains, one of them
\* not registered by the constructor, two relayers, and a single sender who
\* deposits and pays unit amounts in messages of kind Refund
RegistryChains == {WESTEND, UNLISTED}
RegistryRelayerArgs == {"None", "bob", "charlie"}
RegistrySenders == {Deployer}
\* the owner and an account that is not the owner call configure_chain
RegistryCallers == {Deployer, "bob"}
RegistryRecipients == {"bob"}
RegistryAmounts == {1}
RegistryMessageTypes == {"Refund"}

----------------------------------------------------------------------------
(* ink::storage::Mapping: a function defined on the keys that were inserted *)

EmptyMapping == [k \in {} |-> 0]
Contains(m, k) == k \in DOMAIN m
Insert(m, k, v) == [x \in (DOMAIN m) \cup {k} |-> IF x = k THEN v ELSE m[x]]
GetOr(m, k, default) == IF k \in DOMAIN m THEN m[k] ELSE default
\* the mapping without the key k
Remove(m, k) == [x \in (DOMAIN m) \ {k} |-> m[x]]
\* Option<V>: "None" or the stored value
Get(m, k) == IF k \in DOMAIN m THEN m[k] ELSE "None"

(* Saturating arithmetic of the fixed-width unsigned integers *)
saturating_sub(a, b) == IF a < b THEN 0 ELSE a - b
\* a wrapping addition in place of the saturating one
wrapping_add_balance(a, b) == (a + b) % (MaxBalance + 1)
saturating_add_balance(a, b) == IF a + b > MaxBalance THEN MaxBalance ELSE a + b
\* the part of a credit of b to a balance a that does not fit a Balance
excess(a, b) == IF a + b > MaxBalance THEN a + b - MaxBalance ELSE 0
saturating_add_u32(a, b) == IF a + b > MaxCounter THEN MaxCounter ELSE a + b
\* the sum of all deposits after a deposit of b: MaxDeposited + 1 stands for
\* every sum above MaxDeposited
count_deposited(a, b) == IF a + b > MaxDeposited THEN MaxDeposited + 1 ELSE a + b
\* the discarded amounts after b more is dropped: counted while the sum of all
\* deposits, now total, is counted exactly, and not counted (0) beyond
count_discarded(total, a, b) == IF total > MaxDeposited THEN 0 ELSE a + b

(* Result<T, Error> *)
Ok(v) == [ok |-> TRUE, value |-> v]
Err(e) == [ok |-> FALSE, error |-> e]

\* the outcome of a call that panicked
Trap == [ok |-> FALSE, panic |-> TRUE]

\* XcmMessageType encoded as u8
EncodeMessageType(t) ==
    CASE t = "Payment" -> 0
      [] t = "BillSplitting" -> 1
      [] t = "TokenTransfer" -> 2
      [] t = "Refund" -> 3

----------------------------------------------------------------------------
(* Read-only messages *)

get_balance(account) == GetOr(balances, account, 0)

\* a chain without an entry taken as supported
is_chain_supported_by_default(chain_id) == GetOr(supported_chains, chain_id, TRUE)
is_chain_supported(chain_id) == GetOr(supported_chains, chain_id, FALSE)

get_payment_info(payment_id) ==
    IF ~Contains(payment_senders, payment_id) THEN "None"
    ELSE IF ~Contains(payment_recipients, payment_id) THEN "None"
    ELSE [sender |-> payment_senders[payment_id],
          recipient |-> payment_recipients[payment_id],
          amount |-> GetOr(payment_amounts, payment_id, 0),
          source_chain |-> GetOr(payment_source_chains, payment_id, 0),
          destination_chain |-> GetOr(payment_destination_chains, payment_id, 0),
          executed |-> GetOr(payment_executed, payment_id, FALSE)]

\* the loop body of get_pending_payments_count for index i and running count
RECURSIVE pending_scan(_, _, _)
pending_scan(user, i, count) ==
    IF i >= payment_counter THEN count
    ELSE IF Get(payment_senders, i) # "None" /\ Get(payment_recipients, i) # "None"
            /\ (payment_senders[i] = user \/ payment_recipients[i] = user)
            /\ ~GetOr(payment_executed, i, FALSE)
         THEN pending_scan(user, i + 1, saturating_add_u32(count, 1))
         ELSE pending_scan(user, i + 1, count)

\* for i in 0..self.payment_counter
get_pending_payments_count(user) == pending_scan(user, 0, 0)

----------------------------------------------------------------------------
(* Constructor *)

\* Payment::new(initial_supply) called by caller
payment_new(caller, initial_supply) ==
    /\ pay_balances = Insert(EmptyMapping, caller, initial_supply)
    /\ transaction_counter = 0
    /\ request_counter = 0
    /\ total_supply = initial_supply
    /\ pay_owner = caller
    /\ locked = 0

\* BillSplitting::new() called by caller
bill_splitting_new(caller) ==
    /\ bill_creators = EmptyMapping
    /\ bill_amounts = EmptyMapping
    /\ bill_participant_counts = EmptyMapping
    /\ bill_paid_counts = EmptyMapping
    /\ bill_completed = EmptyMapping
    /\ bill_deadlines = EmptyMapping
    /\ bill_participants = EmptyMapping
    /\ bill_individual_amounts = EmptyMapping
    /\ bill_payments = EmptyMapping
    /\ user_bills = EmptyMapping
    /\ bill_counter = 0
    /\ bill_owner = caller
    /\ block_time = 0

\* XcmHandler::new() called by Deployer
xcm_handler_new ==
    /\ payment_senders = EmptyMapping
    /\ payment_recipients = EmptyMapping
    /\ payment_amounts = EmptyMapping
    /\ payment_source_chains = EmptyMapping
    /\ payment_destination_chains = EmptyMapping
    /\ payment_types = EmptyMapping
    /\ payment_executed = EmptyMapping
    /\ payment_timestamps = EmptyMapping
    /\ supported_chains = Insert(Insert(Insert(EmptyMapping, ROCOCO, TRUE), WESTEND, TRUE), KUSAMA, TRUE)
    /\ balances = EmptyMapping
    /\ payment_counter = 0
    /\ owner = Deployer
    /\ relayers = EmptyMapping
    /\ last = [op |-> "new", ret |-> Ok("unit")]
    /\ events = <<>>
    /\ deposited = 0
    /\ discarded = 0
    /\ returned_ids = {}
    /\ settled_ids = {}
    /\ owner_configured = EmptyMapping
    /\ rebound_from = EmptyMapping
    /\ ledger = [a \in Accounts |-> 0]
    /\ any_clamped = FALSE
    /\ funded = {}

\* the three contracts as instantiated by Deployer, Payment with the supply of
\* Payment::default() scaled to the Balance range
Init ==
    /\ xcm_handler_new
    /\ payment_new(Deployer, DefaultSupply)
    /\ bill_splitting_new(Deployer)

----------------------------------------------------------------------------
(* Messages.  Each is one atomic step: ink! runs a message to completion. *)

\* a create that takes its id from the counter before it validates
RejectedAfterCounting(call, e) ==
    /\ last' = [call EXCEPT !.ret = Err(e)]
    /\ events' = <<>>
    /\ payment_counter' = IF call.op = "create"
                          THEN saturating_add_u32(payment_counter, 1)
                          ELSE payment_counter
    /\ UNCHANGED <<payment_senders, payment_recipients, payment_amounts,
                   payment_source_chains, payment_destination_chains, payment_types,
                   payment_executed, payment_timestamps, supported_chains, balances,
                   owner, relayers>>
    /\ UNCHANGED history

\* a call that returns Err: nothing is written, nothing is emitted
Rejected(call, e) ==
    /\ last' = [call EXCEPT !.ret = Err(e)]
    /\ events' = <<>>
    /\ UNCHANGED storage
    /\ UNCHANGED history

\* the validation with the balance checked before the chain
create_validation_balance_first(sender, amount, destination_chain) ==
    IF amount = 0 THEN "InvalidAmount"
    ELSE IF GetOr(balances, sender, 0) < amount THEN "InsufficientBalance"
    ELSE IF ~GetOr(supported_chains, destination_chain, FALSE) THEN "InvalidChain"
    ELSE "Ok"

\* the validation without the check of the sender's balance
create_validation_unfunded(sender, amount, destination_chain) ==
    IF amount = 0 THEN "InvalidAmount"
    ELSE IF ~GetOr(supported_chains, destination_chain, FALSE) THEN "InvalidChain"
    ELSE "Ok"

\* the validation of create_cross_chain_payment, in source order
create_validation(sender, amount, destination_chain) ==
    IF amount = 0 THEN "InvalidAmount"
    ELSE IF ~GetOr(supported_chains, destination_chain, FALSE) THEN "InvalidChain"
    ELSE IF GetOr(balances, sender, 0) < amount THEN "InsufficientBalance"
    ELSE "Ok"

create_cross_chain_payment(sender, recipient, amount, destination_chain, message_type, block_timestamp) ==
    LET call == [op |-> "create", ret |-> "pending"]
        check == create_validation(sender, amount, destination_chain)
        sender_balance == GetOr(balances, sender, 0)
        source_chain == ROCOCO
        payment_id == payment_counter
        \* a pending record already stored under payment_id is replaced
        replaced == IF Contains(payment_senders, payment_id)
                       /\ ~GetOr(payment_executed, payment_id, FALSE)
                    THEN GetOr(payment_amounts, payment_id, 0) ELSE 0
    IN  IF check # "Ok" THEN Rejected(call, check)
        ELSE
        /\ payment_senders' = Insert(payment_senders, payment_id, sender)
        /\ payment_recipients' = Insert(payment_recipients, payment_id, recipient)
        /\ payment_amounts' = Insert(payment_amounts, payment_id, amount)
        /\ payment_source_chains' = Insert(payment_source_chains, payment_id, source_chain)
        /\ payment_destination_chains' = Insert(payment_destination_chains, payment_id, destination_chain)
        /\ payment_types' = Insert(payment_types, payment_id, EncodeMessageType(message_type))
        /\ payment_executed' = Insert(payment_executed, payment_id, FALSE)
        /\ payment_timestamps' = Insert(payment_timestamps, payment_id, block_timestamp)
        /\ balances' = Insert(balances, sender, saturating_sub(sender_balance, amount))
        /\ payment_counter' = saturating_add_u32(payment_counter, 1)
        /\ events' = << [event |-> "CrossChainPaymentCreated", payment_id |-> payment_id,
                         sender |-> sender, recipient |-> recipient, amount |-> amount,
                         destination_chain |-> destination_chain] >>
        /\ last' = [call EXCEPT !.ret = Ok(payment_id)]
        /\ returned_ids' = returned_ids \cup {payment_id}
        /\ discarded' = count_discarded(deposited, discarded, replaced)
        /\ UNCHANGED <<supported_chains, owner, relayers, deposited, settled_ids,
                       owner_configured>>

\* a chain without a bound relayer treated as open to every caller
is_authorized_or_unbound(caller, destination_chain) ==
    \/ Get(relayers, destination_chain) = "None"
    \/ ~(Get(relayers, destination_chain) # caller /\ caller # owner)

\* a relayer bound to any chain may settle payments bound for every chain
is_authorized_any_chain(caller, destination_chain) ==
    \/ caller = owner
    \/ \E c \in DOMAIN relayers : relayers[c] = caller

\* the caller may settle a payment bound for destination_chain
is_authorized(caller, destination_chain) ==
    ~(Get(relayers, destination_chain) # caller /\ caller # owner)

\* the preconditions of execute with the caller checked before the record is looked up
execute_validation_caller_first(caller, payment_id) ==
    IF ~is_authorized(caller, GetOr(payment_destination_chains, payment_id, 0))
    THEN "UnauthorizedAccess"
    ELSE IF ~Contains(payment_senders, payment_id) THEN "PaymentNotFound"
    ELSE IF GetOr(payment_executed, payment_id, FALSE) THEN "AlreadyExecuted"
    ELSE "Ok"

\* the preconditions of execute with the destination chain required to be supported
execute_validation_supported_only(caller, payment_id) ==
    IF ~Contains(payment_senders, payment_id) THEN "PaymentNotFound"
    ELSE IF GetOr(payment_executed, payment_id, FALSE) THEN "AlreadyExecuted"
    ELSE IF ~GetOr(supported_chains, GetOr(payment_destination_chains, payment_id, 0), FALSE)
         THEN "InvalidChain"
    ELSE IF ~is_authorized(caller, GetOr(payment_destination_chains, payment_id, 0))
         THEN "UnauthorizedAccess"
    ELSE "Ok"

\* the preconditions of execute_cross_chain_payment, in source order
execute_validation(caller, payment_id) ==
    IF ~Contains(payment_senders, payment_id) THEN "PaymentNotFound"
    ELSE IF GetOr(payment_executed, payment_id, FALSE) THEN "AlreadyExecuted"
    ELSE IF ~is_authorized(caller, GetOr(payment_destination_chains, payment_id, 0))
         THEN "UnauthorizedAccess"
    ELSE "Ok"

execute_cross_chain_payment(caller, payment_id) ==
    LET call == [op |-> "execute", ret |-> "pending"]
        check == execute_validation(caller, payment_id)
        recipient == payment_recipients[payment_id]
        amount == GetOr(payment_amounts, payment_id, 0)
        recipient_balance == GetOr(balances, recipient, 0)
        credited == saturating_add_balance(recipient_balance, amount)
        sender == payment_senders[payment_id]
    IN  IF check # "Ok" THEN Rejected(call, check)
        ELSE
        /\ payment_executed' = Insert(payment_executed, payment_id, TRUE)
        /\ balances' = Insert(balances, recipient, credited)
        /\ events' = << [event |-> "CrossChainPaymentExecuted", payment_id |-> payment_id,
                         sender |-> sender, recipient |-> recipient, amount |-> amount,
                         executor |-> caller] >>
        /\ last' = [call EXCEPT !.ret = Ok("unit")]
        /\ settled_ids' = settled_ids \cup {payment_id}
        /\ discarded' = count_discarded(deposited, discarded, excess(recipient_balance, amount))
        /\ UNCHANGED <<payment_senders, payment_recipients, payment_amounts,
                       payment_source_chains, payment_destination_chains, payment_types,
                       payment_timestamps, supported_chains, payment_counter, owner,
                       relayers, deposited, returned_ids, owner_configured>>

\* the history of replaced relayers after the owner binds relayer to chain_id: the
\* pending payments to chain_id remember the relayer that was bound until now
Rebound(chain_id, relayer) ==
    LET old == Get(relayers, chain_id)
        affected == {id \in DOMAIN payment_senders :
                        /\ ~GetOr(payment_executed, id, FALSE)
                        /\ GetOr(payment_destination_chains, id, 0) = chain_id}
    IN  IF relayer # "None" /\ old # "None" /\ old # relayer
        THEN [id \in (DOMAIN rebound_from) \cup affected |->
                 IF id \in affected THEN old ELSE rebound_from[id]]
        ELSE rebound_from

\* configure_chain without the owner check
configure_chain_unguarded(caller, chain_id, supported, relayer) ==
    /\ supported_chains' = Insert(supported_chains, chain_id, supported)
    /\ relayers' = IF relayer # "None" THEN Insert(relayers, chain_id, relayer)
                   ELSE relayers
    /\ events' = << [event |-> "ChainConfigured", chain_id |-> chain_id,
                     supported |-> supported, relayer |-> relayer] >>
    /\ last' = [op |-> "configure", ret |-> Ok("unit")]
    /\ UNCHANGED <<payment_senders, payment_recipients, payment_amounts,
                   payment_source_chains, payment_destination_chains, payment_types,
                   payment_executed, payment_timestamps, balances, payment_counter,
                   owner>>
    /\ owner_configured' = Insert(owner_configured, chain_id, supported)
    /\ UNCHANGED <<deposited, discarded, returned_ids, settled_ids>>

\* configure_chain that stores the relayer argument even when it is None
configure_chain_clearing(caller, chain_id, supported, relayer) ==
    IF caller # owner
    THEN Rejected([op |-> "configure", ret |-> "pending"], "UnauthorizedAccess")
    ELSE
    /\ supported_chains' = Insert(supported_chains, chain_id, supported)
    /\ relayers' = Insert(relayers, chain_id, relayer)
    /\ events' = << [event |-> "ChainConfigured", chain_id |-> chain_id,
                     supported |-> supported, relayer |-> relayer] >>
    /\ last' = [op |-> "configure", ret |-> Ok("unit")]
    /\ UNCHANGED <<payment_senders, payment_recipients, payment_amounts,
                   payment_source_chains, payment_destination_chains, payment_types,
                   payment_executed, payment_timestamps, balances, payment_counter,
                   owner>>
    /\ owner_configured' = Insert(owner_configured, chain_id, supported)
    /\ UNCHANGED <<deposited, discarded, returned_ids, settled_ids>>

configure_chain(caller, chain_id, supported, relayer) ==
    LET call == [op |-> "configure", ret |-> "pending"]
    IN  IF caller # owner THEN Rejected(call, "UnauthorizedAccess")
        ELSE
        /\ supported_chains' = Insert(supported_chains, chain_id, supported)
        /\ relayers' = IF relayer # "None" THEN Insert(relayers, chain_id, relayer)
                       ELSE relayers
        /\ events' = << [event |-> "ChainConfigured", chain_id |-> chain_id,
                         supported |-> supported, relayer |-> relayer] >>
        /\ last' = [call EXCEPT !.ret = Ok("unit")]
        /\ UNCHANGED <<payment_senders, payment_recipients, payment_amounts,
                       payment_source_chains, payment_destination_chains, payment_types,
                       payment_executed, payment_timestamps, balances, payment_counter,
                       owner>>
        /\ owner_configured' = Insert(owner_configured, chain_id, supported)
        /\ UNCHANGED <<deposited, discarded, returned_ids, settled_ids>>

\* deposit without the test for a non-zero amount
deposit_unconditional(caller, amount) ==
    LET current_balance == GetOr(balances, caller, 0)
    IN  /\ last' = [op |-> "deposit", ret |-> Ok("unit")]
        /\ balances' = Insert(balances, caller, saturating_add_balance(current_balance, amount))
        /\ events' = << [event |-> "BalanceDeposited", account |-> caller,
                         amount |-> amount] >>
        /\ deposited' = count_deposited(deposited, amount)
        /\ discarded' = count_discarded(deposited', discarded,
                                                  excess(current_balance, amount))
        /\ UNCHANGED <<payment_senders, payment_recipients, payment_amounts,
                       payment_source_chains, payment_destination_chains, payment_types,
                       payment_executed, payment_timestamps, supported_chains,
                       payment_counter, owner, relayers, returned_ids, settled_ids,
                       owner_configured>>

\* payable: amount is the value transferred with the call
deposit(caller, amount) ==
    LET call == [op |-> "deposit", ret |-> Ok("unit")]
        current_balance == GetOr(balances, caller, 0)
        credited == saturating_add_balance(current_balance, amount)
    IN  /\ last' = call
        /\ IF amount > 0
           THEN /\ balances' = Insert(balances, caller, credited)
                /\ events' = << [event |-> "BalanceDeposited", account |-> caller,
                                 amount |-> amount] >>
                /\ deposited' = count_deposited(deposited, amount)
                /\ discarded' = count_discarded(deposited', discarded,
                                                  excess(current_balance, amount))
           ELSE /\ events' = <<>>
                /\ UNCHANGED <<balances, deposited, discarded>>
        /\ UNCHANGED <<payment_senders, payment_recipients, payment_amounts,
                       payment_source_chains, payment_destination_chains, payment_types,
                       payment_executed, payment_timestamps, supported_chains,
                       payment_counter, owner, relayers, returned_ids, settled_ids,
                       owner_configured>>

----------------------------------------------------------------------------

\* the calls below are calls of XcmHandler: they keep no ledger history and
\* leave the storage of the other two contracts alone
XcmHandlerOnly ==
    /\ UNCHANGED locked
    /\ UNCHANGED rebound_from
    /\ UNCHANGED ledger_history
    /\ UNCHANGED payment_storage
    /\ UNCHANGED bill_storage
    /\ UNCHANGED block_time

Create ==
    /\ \E sender \in Senders, recipient \in Recipients, amount \in Amounts,
          destination_chain \in DestinationChains, message_type \in MessageTypes,
          block_timestamp \in BlockTimestamps :
           create_cross_chain_payment(sender, recipient, amount, destination_chain,
                                      message_type, block_timestamp)
    /\ XcmHandlerOnly

Execute ==
    /\ \E caller \in Accounts, payment_id \in PaymentIds :
           execute_cross_chain_payment(caller, payment_id)
    /\ XcmHandlerOnly

Configure ==
    /\ \E caller \in Accounts, chain_id \in ConfigChains, supported \in BOOLEAN,
          relayer \in RelayerArgs :
           configure_chain(caller, chain_id, supported, relayer)
    /\ XcmHandlerOnly

Deposit ==
    /\ \E caller \in Accounts, amount \in Amounts : deposit(caller, amount)
    /\ XcmHandlerOnly

Next == Create \/ Execute \/ Configure \/ Deposit

Spec == Init /\ [][Next]_vars

(* The same operations over inputs that vary the chain registry and the
   message kind rather than the ledger *)
CreateRegistry ==
    /\ \E sender \in RegistrySenders, recipient \in RegistryRecipients,
          amount \in RegistryAmounts, destination_chain \in RegistryChains,
          message_type \in RegistryMessageTypes, block_timestamp \in BlockTimestamps :
           create_cross_chain_payment(sender, recipient, amount, destination_chain,
                                      message_type, block_timestamp)
    /\ XcmHandlerOnly

ConfigureRegistry ==
    /\ \E caller \in RegistryCallers, chain_id \in RegistryChains, supported \in BOOLEAN,
          relayer \in RegistryRelayerArgs :
           configure_chain(caller, chain_id, supported, relayer)
    /\ XcmHandlerOnly

DepositRegistry ==
    /\ \E caller \in RegistrySenders, amount \in RegistryAmounts : deposit(caller, amount)
    /\ XcmHandlerOnly

NextRegistry == CreateRegistry \/ Execute \/ ConfigureRegistry \/ DepositRegistry

SpecRegistry == Init /\ [][NextRegistry]_vars

(* The owner as the relayer of last resort: the calls of Spec, with every    *)
(* successful execute by the owner taken whenever it stays possible         *)
OwnerExecutes(payment_id) ==
    execute_cross_chain_payment(owner, payment_id) /\ last'.ret.ok /\ XcmHandlerOnly

SpecFallback ==
    Init /\ [][Next]_vars /\ \A payment_id \in PaymentIds : WF_vars(OwnerExecutes(payment_id))

(* The calls of SpecRegistry with the history of replaced relayers kept: what
   the event of each call says was configured or created *)
RebindStep ==
    IF events' = <<>>
    THEN UNCHANGED rebound_from
    ELSE LET e == events'[1]
         IN  CASE e.event = "ChainConfigured" ->
                    rebound_from' = Rebound(e.chain_id, e.relayer)
               [] e.event = "CrossChainPaymentCreated" ->
                    rebound_from' = Remove(rebound_from, e.payment_id)
               [] OTHER -> UNCHANGED rebound_from

\* the rest of what a call of this specification leaves alone
RebindingOnly ==
    /\ UNCHANGED locked
    /\ UNCHANGED ledger_history
    /\ UNCHANGED payment_storage
    /\ UNCHANGED bill_storage
    /\ UNCHANGED block_time

CreateRebinding ==
    /\ \E sender \in RegistrySenders, recipient \in RegistryRecipients,
          amount \in RegistryAmounts, destination_chain \in RegistryChains,
          message_type \in RegistryMessageTypes, block_timestamp \in BlockTimestamps :
           create_cross_chain_payment(sender, recipient, amount, destination_chain,
                                      message_type, block_timestamp)
    /\ RebindStep
    /\ RebindingOnly

ExecuteRebinding ==
    /\ \E caller \in Accounts, payment_id \in PaymentIds :
           execute_cross_chain_payment(caller, payment_id)
    /\ RebindStep
    /\ RebindingOnly

ConfigureRebinding ==
    /\ \E caller \in RegistryCallers, chain_id \in RegistryChains, supported \in BOOLEAN,
          relayer \in RegistryRelayerArgs :
           configure_chain(caller, chain_id, supported, relayer)
    /\ RebindStep
    /\ RebindingOnly

DepositRebinding ==
    /\ \E caller \in RegistrySenders, amount \in RegistryAmounts : deposit(caller, amount)
    /\ RebindStep
    /\ RebindingOnly

NextRebinding ==
    CreateRebinding \/ ExecuteRebinding \/ ConfigureRebinding \/ DepositRebinding

SpecRebinding == Init /\ [][NextRebinding]_vars

(* The calls of Spec with the ledger history kept: what the events of each
   call and the balances before it say was deposited, debited and credited.
   The ledger is kept until the first credit is cut short at the Balance
   maximum; from then on it no longer says what an account holds and is
   cleared *)
LedgerStep ==
    IF events' = <<>> \/ events'[1].event = "ChainConfigured"
    THEN UNCHANGED ledger_history
    ELSE LET e == events'[1]
         IN  CASE e.event = "BalanceDeposited" ->
                    /\ any_clamped' = (any_clamped \/ excess(get_balance(e.account), e.amount) > 0)
                    /\ ledger' = IF any_clamped' THEN [a \in Accounts |-> 0]
                                 ELSE [ledger EXCEPT ![e.account] = @ + e.amount]
                    /\ funded' = funded \cup {e.account}
               [] e.event = "CrossChainPaymentCreated" ->
                    /\ ledger' = IF any_clamped THEN [a \in Accounts |-> 0]
                                 ELSE [ledger EXCEPT ![e.sender] = @ - e.amount]
                    /\ UNCHANGED <<any_clamped, funded>>
               [] e.event = "CrossChainPaymentExecuted" ->
                    /\ any_clamped' = (any_clamped \/ excess(get_balance(e.recipient), e.amount) > 0)
                    /\ ledger' = IF any_clamped' THEN [a \in Accounts |-> 0]
                                 ELSE [ledger EXCEPT ![e.recipient] = @ + e.amount]
                    /\ funded' = funded \cup {e.recipient}

CreateLedger ==
    /\ \E sender \in Senders, recipient \in Recipients, amount \in Amounts,
          destination_chain \in DestinationChains, message_type \in MessageTypes,
          block_timestamp \in BlockTimestamps :
           create_cross_chain_payment(sender, recipient, amount, destination_chain,
                                      message_type, block_timestamp)
    /\ LedgerStep
    /\ UNCHANGED <<rebound_from, payment_storage, bill_storage, block_time, locked>>

ExecuteLedger ==
    /\ \E caller \in Accounts, payment_id \in PaymentIds :
           execute_cross_chain_payment(caller, payment_id)
    /\ LedgerStep
    /\ UNCHANGED <<rebound_from, payment_storage, bill_storage, block_time, locked>>

ConfigureLedger ==
    /\ \E caller \in Accounts, chain_id \in ConfigChains, supported \in BOOLEAN,
          relayer \in RelayerArgs :
           configure_chain(caller, chain_id, supported, relayer)
    /\ LedgerStep
    /\ UNCHANGED <<rebound_from, payment_storage, bill_storage, block_time, locked>>

DepositLedger ==
    /\ \E caller \in Accounts, amount \in Amounts : deposit(caller, amount)
    /\ LedgerStep
    /\ UNCHANGED <<rebound_from, payment_storage, bill_storage, block_time, locked>>

NextLedger == CreateLedger \/ ExecuteLedger \/ ConfigureLedger \/ DepositLedger

SpecLedger == Init /\ [][NextLedger]_vars

----------------------------------------------------------------------------
(* The Payment contract *)

\* the constructor argument: any supply a Balance can hold
InitialSupplies == 0..MaxBalance
\* destination_chain is only copied into the event
PaymentChains == {WESTEND}

balance_of(account) == GetOr(pay_balances, account, 0)

\* a Payment call that returns Err: nothing is written, nothing is emitted
PaymentRejected(call, e) ==
    /\ last' = [call EXCEPT !.ret = Err(e)]
    /\ events' = <<>>
    /\ UNCHANGED payment_storage

\* the validation with the amount checked before the accounts
send_payment_validation_amount_first(from, to, amount) ==
    IF amount = 0 THEN "InvalidAmount"
    ELSE IF from = to THEN "SelfPayment"
    ELSE IF balance_of(from) < amount THEN "InsufficientBalance"
    ELSE "Ok"

\* the validation of send_payment, in source order
send_payment_validation(from, to, amount) ==
    IF from = to THEN "SelfPayment"
    ELSE IF amount = 0 THEN "InvalidAmount"
    ELSE IF balance_of(from) < amount THEN "InsufficientBalance"
    ELSE "Ok"

\* the validation of initiate_cross_chain_payment, in source order
initiate_validation(from, to, amount) ==
    IF from = to THEN "SelfPayment"
    ELSE IF amount = 0 THEN "InvalidAmount"
    ELSE IF balance_of(from) < amount THEN "InsufficientBalance"
    ELSE "Ok"

send_payment(from, to, amount) ==
    LET call == [op |-> "send_payment",
                 args |-> [from |-> from, to |-> to, amount |-> amount],
                 ret |-> "pending"]
        check == send_payment_validation(from, to, amount)
    IN  IF check # "Ok" THEN PaymentRejected(call, check)
        ELSE LET from_balance == balance_of(from)
                 debited == Insert(pay_balances, from, saturating_sub(from_balance, amount))
                 to_balance == GetOr(debited, to, 0)
                 transaction_id == transaction_counter
             IN  /\ pay_balances' = Insert(debited, to, saturating_add_balance(to_balance, amount))
                 /\ transaction_counter' = saturating_add_u32(transaction_counter, 1)
                 /\ events' = << [event |-> "PaymentSent", from |-> from, to |-> to,
                                  amount |-> amount, transaction_id |-> transaction_id] >>
                 /\ last' = [call EXCEPT !.ret = Ok(transaction_id)]
                 /\ UNCHANGED <<request_counter, total_supply, pay_owner>>

\* initiate_cross_chain_payment with the amount credited to the recipient
initiate_crediting(from, to, amount, destination_chain) ==
    LET call == [op |-> "initiate_cross_chain_payment",
                 args |-> [from |-> from, to |-> to, amount |-> amount,
                           destination_chain |-> destination_chain],
                 ret |-> "pending"]
        check == initiate_validation(from, to, amount)
    IN  IF check # "Ok" THEN PaymentRejected(call, check)
        ELSE LET from_balance == balance_of(from)
                 debited == Insert(pay_balances, from, saturating_sub(from_balance, amount))
                 transaction_id == transaction_counter
             IN  /\ pay_balances' = Insert(debited, to,
                                           saturating_add_balance(GetOr(debited, to, 0), amount))
                 /\ transaction_counter' = saturating_add_u32(transaction_counter, 1)
                 /\ events' = << [event |-> "CrossChainPaymentInitiated",
                                  transaction_id |-> transaction_id, from |-> from,
                                  to |-> to, amount |-> amount,
                                  destination_chain |-> destination_chain] >>
                 /\ last' = [call EXCEPT !.ret = Ok(transaction_id)]
                 /\ UNCHANGED <<request_counter, total_supply, pay_owner>>

initiate_cross_chain_payment(from, to, amount, destination_chain) ==
    LET call == [op |-> "initiate_cross_chain_payment",
                 args |-> [from |-> from, to |-> to, amount |-> amount,
                           destination_chain |-> destination_chain],
                 ret |-> "pending"]
        check == initiate_validation(from, to, amount)
    IN  IF check # "Ok" THEN PaymentRejected(call, check)
        ELSE LET from_balance == balance_of(from)
                 transaction_id == transaction_counter
             IN  /\ pay_balances' = Insert(pay_balances, from, saturating_sub(from_balance, amount))
                 /\ transaction_counter' = saturating_add_u32(transaction_counter, 1)
                 /\ events' = << [event |-> "CrossChainPaymentInitiated",
                                  transaction_id |-> transaction_id, from |-> from,
                                  to |-> to, amount |-> amount,
                                  destination_chain |-> destination_chain] >>
                 /\ last' = [call EXCEPT !.ret = Ok(transaction_id)]
                 /\ UNCHANGED <<request_counter, total_supply, pay_owner>>

\* the history of locked funds: what the event of the call says was locked
LockStep ==
    IF events' # <<>> /\ events'[1].event = "CrossChainPaymentInitiated"
    THEN locked' = locked + events'[1].amount
    ELSE UNCHANGED locked

\* a message of Payment writes the storage of its own contract only
PaymentOnly ==
    /\ UNCHANGED storage
    /\ UNCHANGED history
    /\ UNCHANGED rebound_from
    /\ UNCHANGED ledger_history
    /\ UNCHANGED bill_storage
    /\ UNCHANGED block_time

Send ==
    /\ \E from \in Accounts, to \in Accounts, amount \in Amounts :
           send_payment(from, to, amount)
    /\ LockStep
    /\ PaymentOnly

Initiate ==
    /\ \E from \in Accounts, to \in Accounts, amount \in Amounts,
          destination_chain \in PaymentChains :
           initiate_cross_chain_payment(from, to, amount, destination_chain)
    /\ LockStep
    /\ PaymentOnly

NextPayment == Send \/ Initiate

\* Payment instantiated by Deployer with any initial supply
InitPayment ==
    /\ xcm_handler_new
    /\ bill_splitting_new(Deployer)
    /\ \E initial_supply \in InitialSupplies : payment_new(Deployer, initial_supply)

SpecPayment == InitPayment /\ [][NextPayment]_vars

\* sum of all balances of the Payment contract
SumPayBalances == LET RECURSIVE Sum(_)
                      Sum(S) == IF S = {} THEN 0
                                ELSE LET x == CHOOSE y \in S : TRUE
                                     IN  pay_balances[x] + Sum(S \ {x})
                  IN  Sum(DOMAIN pay_balances)

----------------------------------------------------------------------------
(* The BillSplitting contract *)

\* the longest participant list and amount list passed to create_bill
MaxParticipants == 2
\* u32::MAX as the range of a count of participants: a count is at most the
\* length of a Vec, which u32::MAX is not below
MaxCount == MaxParticipants
\* the last block timestamp explored
MaxTimestamp == 1
BillIds == 0..MaxCounter
BillCreators == {Deployer}
BillAccounts == {"alice", "bob"}
BillAmounts == {1, MaxBalance}
BillTotals == 0..MaxBalance
Deadlines == {0}
\* Vec<AccountId> and Vec<Balance> of up to MaxParticipants elements
ParticipantLists == UNION {[1..n -> BillAccounts] : n \in 0..MaxParticipants}
AmountLists == UNION {[1..n -> BillAmounts] : n \in 0..MaxParticipants}

\* saturating_add on a count of participants
saturating_add_count(a, b) == IF a + b > MaxCount THEN MaxCount ELSE a + b

\* individual_amounts.iter().sum() over the unbounded integers
RECURSIVE iter_sum(_)
iter_sum(amounts) ==
    IF amounts = <<>> THEN 0 ELSE Head(amounts) + iter_sum(Tail(amounts))

\* the three inserts of the loop over participants.iter().zip(individual_amounts.iter()),
\* from index i on
RECURSIVE store_participants(_, _, _, _)
store_participants(m, bill_id, participants, i) ==
    IF i > Len(participants) THEN m
    ELSE store_participants(Insert(m, <<bill_id, i - 1>>, participants[i]),
                            bill_id, participants, i + 1)

RECURSIVE store_individual_amounts(_, _, _, _)
store_individual_amounts(m, bill_id, individual_amounts, i) ==
    IF i > Len(individual_amounts) THEN m
    ELSE store_individual_amounts(Insert(m, <<bill_id, i - 1>>, individual_amounts[i]),
                                  bill_id, individual_amounts, i + 1)

RECURSIVE store_payments(_, _, _, _)
store_payments(m, bill_id, participants, i) ==
    IF i > Len(participants) THEN m
    ELSE store_payments(Insert(m, <<bill_id, participants[i]>>, FALSE),
                        bill_id, participants, i + 1)

\* the loop over &participants that counts a bill for each of them, from index i on
RECURSIVE count_user_bills(_, _, _)
count_user_bills(m, participants, i) ==
    IF i > Len(participants) THEN m
    ELSE count_user_bills(Insert(m, participants[i],
                                 saturating_add_u32(GetOr(m, participants[i], 0), 1)),
                          participants, i + 1)

get_bill_info(bill_id) ==
    IF ~Contains(bill_creators, bill_id) THEN "None"
    ELSE [creator |-> bill_creators[bill_id],
          total_amount |-> GetOr(bill_amounts, bill_id, 0),
          participant_count |-> GetOr(bill_participant_counts, bill_id, 0),
          paid_count |-> GetOr(bill_paid_counts, bill_id, 0),
          completed |-> GetOr(bill_completed, bill_id, FALSE),
          deadline |-> GetOr(bill_deadlines, bill_id, 0)]

get_user_bill_count(user) == GetOr(user_bills, user, 0)

get_stats == bill_counter

\* a BillSplitting call that returns Err: nothing is written, nothing is emitted
BillRejected(call, e) ==
    /\ last' = [call EXCEPT !.ret = Err(e)]
    /\ events' = <<>>
    /\ UNCHANGED bill_storage

\* a BillSplitting call that panics: the call is reverted and returns no Result
BillTrapped(call) ==
    /\ last' = [call EXCEPT !.ret = Trap]
    /\ events' = <<>>
    /\ UNCHANGED bill_storage

\* the checks of create_bill that come before the sum, in source order
create_bill_validation(total_amount, participants, individual_amounts) ==
    IF total_amount = 0 THEN "InvalidAmount"
    ELSE IF participants = <<>> THEN "InvalidParticipants"
    ELSE IF Len(participants) # Len(individual_amounts) THEN "InvalidParticipants"
    ELSE "Ok"

\* the writes of create_bill once its checks have passed
create_bill_stored(creator, total_amount, participants, individual_amounts, deadline, call) ==
    LET bill_id == bill_counter
        counted == Insert(user_bills, creator,
                          saturating_add_u32(GetOr(user_bills, creator, 0), 1))
    IN  /\ bill_creators' = Insert(bill_creators, bill_id, creator)
        /\ bill_amounts' = Insert(bill_amounts, bill_id, total_amount)
        /\ bill_participant_counts' = Insert(bill_participant_counts, bill_id, Len(participants))
        /\ bill_paid_counts' = Insert(bill_paid_counts, bill_id, 0)
        /\ bill_completed' = Insert(bill_completed, bill_id, FALSE)
        /\ bill_deadlines' = Insert(bill_deadlines, bill_id, deadline)
        /\ bill_participants' = store_participants(bill_participants, bill_id, participants, 1)
        /\ bill_individual_amounts' =
              store_individual_amounts(bill_individual_amounts, bill_id, individual_amounts, 1)
        /\ bill_payments' = store_payments(bill_payments, bill_id, participants, 1)
        /\ bill_counter' = saturating_add_u32(bill_counter, 1)
        /\ user_bills' = count_user_bills(counted, participants, 1)
        /\ events' = << [event |-> "BillCreated", bill_id |-> bill_id, creator |-> creator,
                         total_amount |-> total_amount,
                         participant_count |-> Len(participants)] >>
        /\ last' = [call EXCEPT !.ret = Ok(bill_id)]
        /\ UNCHANGED bill_owner

\* the comparison of the sum with the total and what follows it
create_bill_summed(creator, total_amount, participants, individual_amounts, deadline, call, sum) ==
    IF sum # total_amount THEN BillRejected(call, "InvalidAmount")
    ELSE create_bill_stored(creator, total_amount, participants, individual_amounts,
                            deadline, call)

\* a sum of Balance values that exceeds the Balance range panics in a build with
\* overflow checks and wraps around in a build without them
create_bill(creator, total_amount, participants, individual_amounts, deadline) ==
    LET call == [op |-> "create_bill", ret |-> "pending"]
        check == create_bill_validation(total_amount, participants, individual_amounts)
        sum == iter_sum(individual_amounts)
    IN  IF check # "Ok" THEN BillRejected(call, check)
        ELSE IF sum > MaxBalance
        THEN \/ BillTrapped(call)
             \/ create_bill_summed(creator, total_amount, participants, individual_amounts,
                                   deadline, call, sum % (MaxBalance + 1))
        ELSE create_bill_summed(creator, total_amount, participants, individual_amounts,
                                deadline, call, sum)

\* for index in 0..participant_count: the first index from index on whose stored
\* participant is payer, or participant_count when there is none
RECURSIVE find_participant(_, _, _, _)
find_participant(bill_id, payer, index, participant_count) ==
    IF index >= participant_count THEN participant_count
    ELSE IF Contains(bill_participants, <<bill_id, index>>)
            /\ bill_participants[<<bill_id, index>>] = payer
         THEN index
         ELSE find_participant(bill_id, payer, index + 1, participant_count)

\* the checks of pay_bill, in source order
pay_bill_validation(payer, bill_id, amount) ==
    IF ~Contains(bill_creators, bill_id) THEN "BillNotFound"
    ELSE IF GetOr(bill_completed, bill_id, FALSE) THEN "BillAlreadyCompleted"
    ELSE IF block_time > GetOr(bill_deadlines, bill_id, 0) THEN "BillExpired"
    ELSE IF GetOr(bill_payments, <<bill_id, payer>>, FALSE) THEN "AlreadyPaid"
    ELSE LET participant_count == GetOr(bill_participant_counts, bill_id, 0)
             index == find_participant(bill_id, payer, 0, participant_count)
         IN  IF index < participant_count
             THEN IF amount # GetOr(bill_individual_amounts, <<bill_id, index>>, 0)
                  THEN "InvalidAmount"
                  ELSE "Ok"
             ELSE "ParticipantNotFound"

pay_bill(payer, bill_id, amount) ==
    LET call == [op |-> "pay_bill", ret |-> "pending"]
        check == pay_bill_validation(payer, bill_id, amount)
    IN  IF check # "Ok" THEN BillRejected(call, check)
        ELSE LET participant_count == GetOr(bill_participant_counts, bill_id, 0)
                 paid_count == GetOr(bill_paid_counts, bill_id, 0)
                 new_paid_count == saturating_add_count(paid_count, 1)
                 paid == [event |-> "BillPaid", bill_id |-> bill_id, payer |-> payer,
                          amount |-> amount]
                 completed == [event |-> "BillCompleted", bill_id |-> bill_id,
                               creator |-> bill_creators[bill_id],
                               total_paid |-> GetOr(bill_amounts, bill_id, 0)]
             IN  /\ bill_payments' = Insert(bill_payments, <<bill_id, payer>>, TRUE)
                 /\ bill_paid_counts' = Insert(bill_paid_counts, bill_id, new_paid_count)
                 /\ IF new_paid_count = participant_count
                    THEN /\ bill_completed' = Insert(bill_completed, bill_id, TRUE)
                         /\ events' = <<completed, paid>>
                    ELSE /\ UNCHANGED bill_completed
                         /\ events' = <<paid>>
                 /\ last' = [call EXCEPT !.ret = Ok("unit")]
                 /\ UNCHANGED <<bill_creators, bill_amounts, bill_participant_counts,
                                bill_deadlines, bill_participants, bill_individual_amounts,
                                user_bills, bill_counter, bill_owner>>

\* a message of BillSplitting writes the storage of its own contract only
BillSplittingOnly ==
    /\ UNCHANGED locked
    /\ UNCHANGED storage
    /\ UNCHANGED history
    /\ UNCHANGED rebound_from
    /\ UNCHANGED ledger_history
    /\ UNCHANGED payment_storage

CreateBill ==
    /\ \E creator \in BillCreators, total_amount \in BillTotals,
          participants \in ParticipantLists, individual_amounts \in AmountLists,
          deadline \in Deadlines :
           create_bill(creator, total_amount, participants, individual_amounts, deadline)
    /\ BillSplittingOnly
    /\ UNCHANGED block_time

PayBill ==
    /\ \E payer \in Accounts, bill_id \in BillIds, amount \in BillAmounts :
           pay_bill(payer, bill_id, amount)
    /\ BillSplittingOnly
    /\ UNCHANGED block_time

\* a later block: the block timestamp grows
NextBlock ==
    /\ block_time < MaxTimestamp
    /\ block_time' = block_time + 1
    /\ UNCHANGED <<last, events>>
    /\ UNCHANGED bill_storage
    /\ BillSplittingOnly

NextBillSplitting == CreateBill \/ PayBill \/ NextBlock

SpecBillSplitting == Init /\ [][NextBillSplitting]_vars

----------------------------------------------------------------------------
(* Derived quantities *)

RECURSIVE SumOver(_, _)
SumOver(S, f) ==
    IF S = {} THEN 0
    ELSE LET x == CHOOSE y \in S : TRUE IN f[x] + SumOver(S \ {x}, f)

\* sum of all account balances
SumBalances == SumOver(DOMAIN balances, balances)

PendingIds == {id \in DOMAIN payment_senders : ~GetOr(payment_executed, id, FALSE)}

\* sum of the amounts of all records with executed = false
SumPending == SumOver(PendingIds, [id \in PendingIds |-> GetOr(payment_amounts, id, 0)])

----------------------------------------------------------------------------
(* C1: conservation.  As claimed: in every reachable state the sum of all   *)
(* balances plus the sum of the amounts of all unexecuted records equals    *)
(* the sum of all amounts ever deposited (stated of the states in which     *)
(* that sum is counted exactly).                                            *)
C1_Conservation ==
    deposited <= MaxDeposited => SumBalances + SumPending = deposited

(* C1, amended: the sum of all balances plus the amounts of all unexecuted  *)
(* records equals the sum of all deposits minus what was discarded (the     *)
(* part of a deposit or settlement credit above the maximum balance, and    *)
(* the amount of an unexecuted record replaced by a later create); so it    *)
(* never exceeds the sum of all deposits (stated of the states in which     *)
(* that sum is counted exactly).                                            *)
C1_ConservationUpToDiscarded ==
    deposited <= MaxDeposited
    => /\ discarded >= 0
       /\ SumBalances + SumPending + discarded = deposited
       /\ SumBalances + SumPending <= deposited

\* funds are locked in a pending record, a payment was settled, a credit was clamped
C1_Witness ==
    /\ PendingIds # {}
    /\ settled_ids # {}
    /\ discarded > 0
    /\ deposited <= MaxDeposited
    /\ SumBalances + SumPending < deposited

----------------------------------------------------------------------------
(* C2: at-most-once settlement.  For every payment id, execute returns Ok    *)
(* at most once; every execute on that id after the successful one returns  *)
(* AlreadyExecuted and leaves all balances unchanged.                        *)
C2_AtMostOnce ==
    [][\A id \in settled_ids, caller \in Accounts :
          (last'.op = "execute" /\ execute_cross_chain_payment(caller, id))
          => /\ last'.ret = Err("AlreadyExecuted")
             /\ balances' = balances]_vars

----------------------------------------------------------------------------
\* caller is neither the owner nor the relayer bound to the destination chain of the stored id
Outsider(caller, id) ==
    /\ Contains(payment_senders, id)
    /\ caller # owner
    /\ Get(relayers, payment_destination_chains[id]) # caller

(* C3: authorization gate.  As claimed: for every stored payment id, execute *)
(* by an account that is neither the relayer bound to the payment's          *)
(* destination chain nor the owner returns UnauthorizedAccess and mutates    *)
(* nothing.                                                                  *)
C3_AuthorizationGate ==
    [][\A id \in PaymentIds, caller \in Accounts :
          (last'.op = "execute" /\ Outsider(caller, id)
             /\ execute_cross_chain_payment(caller, id))
          => /\ last'.ret = Err("UnauthorizedAccess")
             /\ UNCHANGED storage]_vars

(* C3, amended: for every stored payment id whose executed flag is false,    *)
(* execute by such an account returns UnauthorizedAccess; for a stored id    *)
(* whose executed flag is true it returns AlreadyExecuted; in both cases     *)
(* nothing is mutated and nothing is emitted.                                *)
C3_AuthorizationGatePending ==
    [][\A id \in PaymentIds, caller \in Accounts :
          (last'.op = "execute" /\ Outsider(caller, id)
             /\ execute_cross_chain_payment(caller, id))
          => /\ last'.ret = IF payment_executed[id] THEN Err("AlreadyExecuted")
                            ELSE Err("UnauthorizedAccess")
             /\ events' = <<>>
             /\ UNCHANGED storage]_vars

\* an execute was just refused although a relayer is bound and a payment is pending
C3_Witness ==
    /\ last = [op |-> "execute", ret |-> Err("UnauthorizedAccess")]
    /\ PendingIds # {}
    /\ \E id \in PendingIds : Get(relayers, payment_destination_chains[id]) = "charlie"

----------------------------------------------------------------------------
(* C4: settlement is only triggered by an authorized party.  A payment's     *)
(* executed flag changes from false to true (and its recipient is credited)  *)
(* only in an execute step whose caller is, at that moment, the owner or the *)
(* relayer bound to the payment's destination chain.                         *)
C4_SettledOnlyByAuthorized ==
    [][\A id \in PaymentIds :
          (/\ Contains(payment_executed, id)
           /\ ~payment_executed[id]
           /\ payment_executed'[id])
          => \E caller \in Accounts :
                /\ \/ caller = owner
                   \/ Get(relayers, payment_destination_chains[id]) = caller
                /\ execute_cross_chain_payment(caller, id)
                /\ last' = [op |-> "execute", ret |-> Ok("unit")]
                /\ balances'[payment_recipients[id]] >= get_balance(payment_recipients[id])]_vars

\* a bound relayer that is not the owner has just settled a payment
C4_Witness ==
    /\ last = [op |-> "execute", ret |-> Ok("unit")]
    /\ events[1].executor = "charlie"
    /\ owner # "charlie"
    /\ payment_executed[events[1].payment_id]

----------------------------------------------------------------------------
(* C5: creation validation order.  create with amount = 0 returns            *)
(* InvalidAmount whatever the chain and the sender's balance; with           *)
(* amount > 0 and an unsupported chain it returns InvalidChain whatever the  *)
(* balance; it returns InsufficientBalance only when amount > 0, the chain   *)
(* is supported and the sender's balance < amount.                           *)
C5_CreationValidationOrder ==
    \A sender \in Accounts, amount \in Amounts, chain \in DestinationChains :
        LET result == create_validation(sender, amount, chain) IN
        /\ amount = 0 => result = "InvalidAmount"
        /\ (amount > 0 /\ ~is_chain_supported(chain)) => result = "InvalidChain"
        /\ result = "InsufficientBalance"
             => (amount > 0 /\ is_chain_supported(chain) /\ get_balance(sender) < amount)

\* InvalidChain was returned while no account could have afforded any amount
C5_Witness ==
    /\ last = [op |-> "create", ret |-> Err("InvalidChain")]
    /\ \A a \in Accounts : get_balance(a) = 0
    /\ ~is_chain_supported(WESTEND)

----------------------------------------------------------------------------
(* C6: a failed creation has no effect.  Whenever create returns             *)
(* InvalidAmount, InvalidChain or InsufficientBalance, all balances, all     *)
(* payment records, the counter and the chain registry are as before the     *)
(* call and no event is emitted.                                             *)
C6_FailedCreateNoEffect ==
    [][(/\ last'.op = "create"
        /\ last'.ret \in {Err("InvalidAmount"), Err("InvalidChain"), Err("InsufficientBalance")})
       => (UNCHANGED storage /\ events' = <<>>)]_vars

\* a create was refused for lack of funds by a sender that holds some, with an id already taken
C6_Witness ==
    /\ last = [op |-> "create", ret |-> Err("InsufficientBalance")]
    /\ \E a \in Accounts : get_balance(a) > 0 /\ get_balance(a) < MaxAmount
    /\ payment_counter > 0
    /\ events = <<>>

----------------------------------------------------------------------------
(* C7: successful creation.  When amount > 0, the chain is supported and the *)
(* caller's balance >= amount, create returns the pre-call counter as id,    *)
(* stores the record under that id with executed = false, decreases the      *)
(* caller's balance by exactly amount, increases the counter by one and      *)
(* changes no other account's balance.                                       *)
C7_SuccessfulCreate ==
    [][\A sender \in Accounts, recipient \in Recipients, amount \in Amounts,
          chain \in DestinationChains, type \in MessageTypes, now \in BlockTimestamps :
          (/\ last'.op = "create"
           /\ amount > 0 /\ is_chain_supported(chain) /\ get_balance(sender) >= amount
           /\ create_cross_chain_payment(sender, recipient, amount, chain, type, now))
          => LET id == payment_counter IN
             /\ last'.ret = Ok(id)
             /\ payment_senders'[id] = sender
             /\ payment_recipients'[id] = recipient
             /\ payment_amounts'[id] = amount
             /\ payment_destination_chains'[id] = chain
             /\ payment_executed'[id] = FALSE
             /\ balances'[sender] = get_balance(sender) - amount
             /\ payment_counter' = payment_counter + 1
             /\ \A other \in Accounts \ {sender} :
                   GetOr(balances', other, 0) = get_balance(other)]_vars

----------------------------------------------------------------------------
\* the effect of a successful execute of id: the flag is set, the recipient is credited
\* (the sum, clamped at the maximum balance or not), nothing else changes
ExecuteStep(caller, id, clamped) ==
    LET recipient == payment_recipients[id]
        sum == get_balance(recipient) + payment_amounts[id]
        expected == IF clamped /\ sum > MaxBalance THEN MaxBalance ELSE sum
    IN  /\ ~payment_executed[id]
        /\ payment_executed' = [payment_executed EXCEPT ![id] = TRUE]
        /\ balances'[recipient] = expected
        /\ \A other \in Accounts \ {recipient} :
              GetOr(balances', other, 0) = get_balance(other)
        /\ UNCHANGED <<payment_senders, payment_recipients, payment_amounts,
                       payment_source_chains, payment_destination_chains, payment_types,
                       payment_timestamps, supported_chains, payment_counter, owner,
                       relayers>>

\* an executed flag goes from false to true only in a successful execute
FlagSetOnlyByExecute ==
    \A id \in PaymentIds :
        (Contains(payment_executed, id) /\ ~payment_executed[id] /\ payment_executed'[id])
        => last' = [op |-> "execute", ret |-> Ok("unit")]

\* a balance grows, other than by a deposit, only in the step that sets the executed
\* flag of a pending record whose recipient is that account
CreditedOnlyWithFlag ==
    \A a \in Accounts :
        (get_balance(a)' > get_balance(a) /\ last'.op # "deposit")
        => \E id \in PaymentIds :
              /\ Contains(payment_executed, id)
              /\ ~payment_executed[id]
              /\ payment_executed'[id]
              /\ payment_recipients[id] = a

(* C8: successful execution is one atomic step.  As claimed: a successful    *)
(* execute(id) sets the record's executed flag and increases the recipient's *)
(* balance by the record's amount in the same step, changing nothing else;   *)
(* so the flag never becomes true in a step that is not a successful         *)
(* execute, and no recipient is credited for a payment in a step that does   *)
(* not set that payment's flag.                                              *)
C8_AtomicExecute ==
    [][/\ \A caller \in Accounts, id \in PaymentIds :
             (last' = [op |-> "execute", ret |-> Ok("unit")]
                /\ execute_cross_chain_payment(caller, id))
             => ExecuteStep(caller, id, FALSE)
       /\ FlagSetOnlyByExecute
       /\ CreditedOnlyWithFlag]_vars

(* C8, amended: a successful execute(id) sets the record's executed flag and *)
(* increases the recipient's balance by the record's amount, clamped at the  *)
(* maximum representable balance, in the same step, changing nothing else;   *)
(* so the flag never becomes true in a step that is not a successful         *)
(* execute, and no recipient is credited for a payment in a step that does   *)
(* not set that payment's flag.                                              *)
C8_AtomicExecuteClamped ==
    [][/\ \A caller \in Accounts, id \in PaymentIds :
             (last' = [op |-> "execute", ret |-> Ok("unit")]
                /\ execute_cross_chain_payment(caller, id))
             => ExecuteStep(caller, id, TRUE)
       /\ FlagSetOnlyByExecute
       /\ CreditedOnlyWithFlag]_vars

\* a payment of the largest amount was just settled to a recipient who had been paid
\* before: the two settled payments, the only ones created, were worth all that was
\* deposited, more than a balance can hold, and the recipient's balance is at the maximum
C8_Witness ==
    /\ last = [op |-> "execute", ret |-> Ok("unit")]
    /\ get_balance(events[1].recipient) = MaxBalance
    /\ events[1].amount = MaxAmount
    /\ deposited = MaxDeposited
    /\ Cardinality(settled_ids) = 2
    /\ DOMAIN payment_amounts = settled_ids
    /\ PendingIds = {}
    /\ \A id \in settled_ids : payment_recipients[id] = events[1].recipient
    /\ SumOver(settled_ids, payment_amounts) = MaxDeposited
    /\ SumBalances = MaxBalance

----------------------------------------------------------------------------
(* C9: payment ids are never reused.  The counter increases by exactly one   *)
(* on every successful create and is unchanged by every other call; every    *)
(* successful create returns an id different from all previously returned    *)
(* ids and never overwrites an existing record.                              *)
C9_IdsNeverReused ==
    [][IF last'.op = "create" /\ last'.ret.ok
       THEN /\ payment_counter' = payment_counter + 1
            /\ last'.ret.value \notin returned_ids
            /\ ~Contains(payment_senders, last'.ret.value)
       ELSE payment_counter' = payment_counter]_vars

----------------------------------------------------------------------------
(* C10: executed is monotone.  Once the executed flag of a payment id is     *)
(* true it is true in every later state.                                     *)
C10_ExecutedMonotone ==
    [][\A id \in PaymentIds :
          GetOr(payment_executed, id, FALSE) => GetOr(payment_executed', id, FALSE)]_vars

----------------------------------------------------------------------------
\* the fields of a payment record that get_payment_info returns, without the flag
CreationFields(info) ==
    [sender |-> info.sender, recipient |-> info.recipient, amount |-> info.amount,
     source_chain |-> info.source_chain, destination_chain |-> info.destination_chain]

(* C11: payment records are immutable after creation.  For every stored      *)
(* payment id, the sender, recipient, amount, source chain and destination   *)
(* chain returned by get_payment_info never change after the create that     *)
(* stored them, whatever calls follow; only the executed flag may change.    *)
C11_RecordsImmutable ==
    [][\A id \in PaymentIds :
          Contains(payment_senders, id)
          => /\ Contains(payment_senders', id)
             /\ CreationFields(get_payment_info(id)') = CreationFields(get_payment_info(id))]_vars

----------------------------------------------------------------------------
\* the stored records that are not executed and have user as sender or recipient
PendingOf(user) ==
    {id \in DOMAIN payment_senders :
        /\ ~GetOr(payment_executed, id, FALSE)
        /\ (payment_senders[id] = user \/ payment_recipients[id] = user)}

(* C12: pending count correctness.  In every reachable state and for every   *)
(* account u, get_pending_payments_count(u) equals the number of stored      *)
(* payment records whose executed flag is false and whose sender or          *)
(* recipient is u, a record with sender = recipient = u counted once.        *)
C12_PendingCount ==
    \A user \in Accounts : get_pending_payments_count(user) = Cardinality(PendingOf(user))

----------------------------------------------------------------------------
(* C13: chain configuration is owner-only.  configure_chain called by any    *)
(* account other than the owner returns UnauthorizedAccess and leaves the    *)
(* supported flags, the relayer bindings and all other state unchanged;      *)
(* called by the owner it always succeeds and sets the chain's supported     *)
(* flag to the given value.                                                  *)
C13_ConfigureOwnerOnly ==
    [][last'.op = "configure"
       => \A caller \in Accounts, chain_id \in RegistryChains, supported \in BOOLEAN,
             relayer \in RegistryRelayerArgs :
             configure_chain(caller, chain_id, supported, relayer)
             => IF caller # owner
                THEN /\ last'.ret = Err("UnauthorizedAccess")
                     /\ UNCHANGED storage
                     /\ events' = <<>>
                ELSE /\ last'.ret = Ok("unit")
                     /\ is_chain_supported(chain_id)' = supported]_vars

\* a non-owner was just refused after the owner had registered a new chain and bound a relayer
C13_Witness ==
    /\ last = [op |-> "configure", ret |-> Err("UnauthorizedAccess")]
    /\ is_chain_supported(UNLISTED)
    /\ ~is_chain_supported(WESTEND)
    /\ Get(relayers, UNLISTED) = "bob"

----------------------------------------------------------------------------
(* C14: relayer bindings are never cleared implicitly.  A successful         *)
(* configure_chain(c, supported, None) leaves the relayer bound to c         *)
(* unchanged, a successful configure_chain(c, supported, Some(r)) binds r to *)
(* c and leaves every other chain's binding unchanged, and no other          *)
(* operation changes any binding; hence a chain that once has a relayer      *)
(* bound has one bound in every later state.                                 *)
C14_BindingsNeverCleared ==
    [][/\ \A caller \in Accounts, chain_id \in RegistryChains, supported \in BOOLEAN,
             relayer \in RegistryRelayerArgs :
             (last' = [op |-> "configure", ret |-> Ok("unit")]
                /\ configure_chain(caller, chain_id, supported, relayer))
             => IF relayer = "None"
                THEN relayers' = relayers
                ELSE /\ Get(relayers', chain_id) = relayer
                     /\ \A c \in (DOMAIN relayers \cup DOMAIN relayers') \ {chain_id} :
                           Get(relayers', c) = Get(relayers, c)
       /\ last' # [op |-> "configure", ret |-> Ok("unit")] => relayers' = relayers
       /\ \A c \in DOMAIN relayers : Get(relayers', c) # "None"]_vars

\* the owner just reconfigured a chain without naming a relayer; both chains keep theirs
C14_Witness ==
    /\ last = [op |-> "configure", ret |-> Ok("unit")]
    /\ events[1].relayer = "None"
    /\ events[1].chain_id = UNLISTED
    /\ Get(relayers, UNLISTED) = "charlie"
    /\ Get(relayers, WESTEND) = "bob"

----------------------------------------------------------------------------
(* C15: chain entries come only from owner configuration.  In every          *)
(* reachable state, is_chain_supported(c) is true only if the owner has      *)
(* successfully called configure_chain(c, true, _) more recently than any    *)
(* configure_chain(c, false, _); a chain never configured by the owner is    *)
(* unsupported and create_cross_chain_payment to it returns InvalidChain.    *)
C15_SupportedOnlyByOwner ==
    \A c \in Chains :
       /\ is_chain_supported(c) => GetOr(owner_configured, c, FALSE)
       /\ ~Contains(owner_configured, c)
          => /\ ~is_chain_supported(c)
             /\ \A sender \in Accounts, amount \in 1..MaxAmount :
                   create_validation(sender, amount, c) = "InvalidChain"

(* C15, amended: is_chain_supported(c) is true exactly if the owner's most   *)
(* recent successful configure_chain(c, s, _) had s = true or, when the      *)
(* owner has never configured c, if c is one of the chains 1000, 2000, 3000  *)
(* that the constructor registers as supported; create_cross_chain_payment   *)
(* of a non-zero amount to a chain that is not supported returns             *)
(* InvalidChain.                                                             *)
C15_SupportedByOwnerOrConstructor ==
    \A c \in Chains :
       /\ is_chain_supported(c) = IF Contains(owner_configured, c)
                                  THEN owner_configured[c]
                                  ELSE c \in ConstructorChains
       /\ ~is_chain_supported(c)
          => \A sender \in Accounts, amount \in 1..MaxAmount :
                create_validation(sender, amount, c) = "InvalidChain"

\* a create to a chain the owner took out of the registry was just refused, while a
\* chain the owner added is supported and a third one still is as constructed
C15_Witness ==
    /\ last = [op |-> "create", ret |-> Err("InvalidChain")]
    /\ GetOr(owner_configured, WESTEND, TRUE) = FALSE
    /\ GetOr(owner_configured, UNLISTED, FALSE)
    /\ is_chain_supported(UNLISTED)
    /\ is_chain_supported(KUSAMA)
    /\ GetOr(balances, Deployer, 0) > 0

----------------------------------------------------------------------------
(* C16: execute follows create.  execute_cross_chain_payment(id) for an id   *)
(* that no successful create has returned yields PaymentNotFound and changes *)
(* no state, so a successful execute of id and its CrossChainPaymentExecuted *)
(* event are preceded by the successful create that returned id and its      *)
(* CrossChainPaymentCreated event.                                           *)
C16_ExecuteFollowsCreate ==
    [][/\ \A caller \in Accounts, id \in PaymentIds :
             (last'.op = "execute" /\ id \notin returned_ids
                /\ execute_cross_chain_payment(caller, id))
             => /\ last'.ret = Err("PaymentNotFound")
                /\ UNCHANGED storage
                /\ events' = <<>>
       /\ (events' # <<>> /\ events'[1].event = "CrossChainPaymentExecuted")
          => events'[1].payment_id \in returned_ids
       /\ settled_ids' \subseteq returned_ids']_vars

\* an execute of an id that was never returned was just refused, after the only
\* payment created so far had been settled
C16_Witness ==
    /\ last = [op |-> "execute", ret |-> Err("PaymentNotFound")]
    /\ returned_ids = {0}
    /\ settled_ids = {0}

----------------------------------------------------------------------------
(* C17: events are emitted exactly once per successful transition.  The      *)
(* event log is append-only and contains, for each payment id, exactly one   *)
(* CrossChainPaymentCreated event and at most one CrossChainPaymentExecuted  *)
(* event, carrying that record's sender, recipient and amount and the        *)
(* executing caller; every call that returns an error emits no event.        *)
C17_EventsExactlyOnce ==
    [][/\ ~last'.ret.ok => events' = <<>>
       /\ (last'.op = "create" /\ last'.ret.ok)
          => /\ Len(events') = 1
             /\ events'[1].event = "CrossChainPaymentCreated"
             /\ events'[1].payment_id = last'.ret.value
             /\ events'[1].payment_id \notin returned_ids
       /\ (last'.op = "execute" /\ last'.ret.ok)
          => /\ Len(events') = 1
             /\ events'[1].event = "CrossChainPaymentExecuted"
             /\ events'[1].payment_id \notin settled_ids
             /\ events'[1].sender = payment_senders[events'[1].payment_id]
             /\ events'[1].recipient = payment_recipients[events'[1].payment_id]
             /\ events'[1].amount = payment_amounts[events'[1].payment_id]]_vars

----------------------------------------------------------------------------
(* C18: deposit.  deposit with transferred amount > 0 increases the caller's *)
(* balance by amount, clamped at the maximum representable balance, emits    *)
(* one BalanceDeposited event and changes no other balance, no payment       *)
(* record, not the counter and not the registry; deposit with amount = 0     *)
(* changes nothing and emits nothing.                                        *)
C18_DepositFrame ==
    [][\A caller \in Accounts, amount \in Amounts :
          (last'.op = "deposit" /\ deposit(caller, amount))
          => /\ last'.ret = Ok("unit")
             /\ IF amount > 0
                THEN /\ get_balance(caller)' =
                           IF get_balance(caller) + amount > MaxBalance THEN MaxBalance
                           ELSE get_balance(caller) + amount
                     /\ events' = << [event |-> "BalanceDeposited", account |-> caller,
                                      amount |-> amount] >>
                     /\ \A a \in (DOMAIN balances \cup DOMAIN balances') \ {caller} :
                           /\ a \in DOMAIN balances /\ a \in DOMAIN balances'
                           /\ balances'[a] = balances[a]
                     /\ UNCHANGED <<payment_senders, payment_recipients, payment_amounts,
                                    payment_source_chains, payment_destination_chains,
                                    payment_types, payment_executed, payment_timestamps,
                                    payment_counter, supported_chains, relayers, owner>>
                ELSE /\ UNCHANGED storage
                     /\ events' = <<>>]_vars

\* a deposit was just credited to a balance that could not hold all of it
C18_Witness ==
    /\ last = [op |-> "deposit", ret |-> Ok("unit")]
    /\ events # <<>>
    /\ get_balance(events[1].account) = MaxBalance
    /\ events[1].amount < MaxBalance
    /\ returned_ids = {}
    /\ discarded > 0

----------------------------------------------------------------------------
(* C19: arithmetic never errors.  With balances bounded unsigned integers,   *)
(* a deposit or a successful execute whose credit would exceed the maximum   *)
(* representable balance still succeeds and leaves the credited balance      *)
(* clamped at that maximum, never wrapped; the debit in create never         *)
(* underflows; no call fails because of an arithmetic extreme.               *)
C19_ArithmeticNeverErrors ==
    [][/\ \A a \in DOMAIN balances' : balances'[a] \in 0..MaxBalance
       /\ last'.op = "deposit"
          => \A caller \in Accounts, amount \in Amounts :
                deposit(caller, amount)
                => /\ last'.ret.ok
                   /\ get_balance(caller) + amount > MaxBalance
                      => get_balance(caller)' = MaxBalance
       /\ last'.op = "execute"
          => \A id \in PaymentIds :
                (Contains(payment_senders, id) /\ ~GetOr(payment_executed, id, FALSE))
                => \A caller \in Accounts :
                      ((caller = owner \/ Get(relayers, payment_destination_chains[id]) = caller)
                         /\ execute_cross_chain_payment(caller, id))
                      => /\ last'.ret.ok
                         /\ get_balance(payment_recipients[id]) + payment_amounts[id] > MaxBalance
                            => get_balance(payment_recipients[id])' = MaxBalance
       /\ last'.op = "create"
          => \A sender \in Accounts, amount \in Amounts \ {0} :
                get_balance(sender) >= amount
                => \A destination_chain \in DestinationChains :
                      is_chain_supported(destination_chain)
                      => \A recipient \in Recipients, message_type \in MessageTypes,
                            block_timestamp \in BlockTimestamps :
                            create_cross_chain_payment(sender, recipient, amount,
                                                       destination_chain, message_type,
                                                       block_timestamp)
                            => /\ last'.ret.ok
                               /\ get_balance(sender)' = get_balance(sender) - amount]_vars

\* a payment was just settled although the recipient's balance could not hold the credit
C19_Witness ==
    /\ last = [op |-> "execute", ret |-> Ok("unit")]
    /\ get_balance(events[1].recipient) = MaxBalance
    /\ events[1].amount < MaxBalance
    /\ discarded > 0
    /\ Cardinality(returned_ids) = 1

----------------------------------------------------------------------------
\* every increase of a balance is the caller's own deposit or the settlement of a
\* pending record to that record's recipient, by at most the record's amount
CreditedOnlyByDepositOrSettlement ==
    \A a \in Accounts :
       get_balance(a)' > get_balance(a)
       => \/ /\ last'.op = "deposit"
             /\ events'[1].account = a
          \/ /\ last' = [op |-> "execute", ret |-> Ok("unit")]
             /\ ~GetOr(payment_executed, events'[1].payment_id, FALSE)
             /\ payment_recipients[events'[1].payment_id] = a
             /\ get_balance(a)' - get_balance(a) <= payment_amounts[events'[1].payment_id]

(* C20: no cancellation or refund transition.  A payment record is only ever *)
(* in state Created (executed = false) or Executed (executed = true,         *)
(* terminal); the amount debited from the sender by create is never credited *)
(* to any account other than the record's recipient, and while the payment   *)
(* stays unexecuted no operation returns it to the sender, whatever its      *)
(* message kind, Refund included.                                            *)
C20_NoRefundTransition ==
    [][/\ \A id \in DOMAIN payment_senders :
             /\ Contains(payment_senders', id)
             /\ GetOr(payment_executed, id, FALSE) => GetOr(payment_executed', id, FALSE)
       /\ CreditedOnlyByDepositOrSettlement]_vars

----------------------------------------------------------------------------
\* get_payment_info(payment_id) returns Some(..)
payment_info_found(payment_id) ==
    Contains(payment_senders, payment_id) /\ Contains(payment_recipients, payment_id)

(* C21: point query and record existence.  In every reachable state          *)
(* get_payment_info(id) returns a record if and only if id < payment_counter *)
(* (id was returned by a successful create); for an id never created it      *)
(* returns not-found before and after any calls that concern other ids.      *)
C21_FoundIffBelowCounter ==
    \A id \in PaymentIds :
       /\ payment_info_found(id) <=> id < payment_counter
       /\ payment_info_found(id) <=> id \in returned_ids

----------------------------------------------------------------------------
(* C27: execute precondition order.  execute_cross_chain_payment checks, in  *)
(* this order, record missing -> PaymentNotFound, record already executed -> *)
(* AlreadyExecuted, caller unauthorized -> UnauthorizedAccess; so any        *)
(* caller, authorized or not, that calls execute on an already executed      *)
(* payment receives AlreadyExecuted, and every error outcome leaves all      *)
(* state unchanged.                                                          *)
C27_ExecutePreconditionOrder ==
    [][last'.op = "execute"
       => /\ ~last'.ret.ok => (UNCHANGED storage /\ events' = <<>>)
          /\ \A caller \in Accounts, id \in PaymentIds :
                execute_cross_chain_payment(caller, id)
                => last'.ret =
                      IF ~Contains(payment_senders, id) THEN Err("PaymentNotFound")
                      ELSE IF GetOr(payment_executed, id, FALSE) THEN Err("AlreadyExecuted")
                      ELSE IF caller # owner
                              /\ Get(relayers, payment_destination_chains[id]) # caller
                           THEN Err("UnauthorizedAccess")
                      ELSE Ok("unit")]_vars

\* an execute of an already executed payment was just refused; the relayer bound to
\* its chain and an id without a record make the other outcomes possible too
C27_Witness ==
    /\ last = [op |-> "execute", ret |-> Err("AlreadyExecuted")]
    /\ settled_ids # {}
    /\ \E id \in settled_ids : Get(relayers, payment_destination_chains[id]) = "charlie"
    /\ \E id \in PaymentIds : ~Contains(payment_senders, id)

----------------------------------------------------------------------------
(* C28: de-supporting a chain is not retroactive.  execute does not consult  *)
(* the supported flag: a pending payment created while its destination chain *)
(* was supported is still executed successfully by the owner or the bound    *)
(* relayer after the owner has set that chain to unsupported, while new      *)
(* creates to that chain return InvalidChain.                                *)
C28_DesupportNotRetroactive ==
    [][/\ last'.op = "execute"
          => \A id \in PaymentIds :
                (/\ Contains(payment_senders, id)
                 /\ ~GetOr(payment_executed, id, FALSE)
                 /\ ~is_chain_supported(payment_destination_chains[id]))
                => \A caller \in Accounts :
                      ((caller = owner \/ Get(relayers, payment_destination_chains[id]) = caller)
                         /\ execute_cross_chain_payment(caller, id))
                      => /\ last'.ret = Ok("unit")
                         /\ GetOr(payment_executed', id, FALSE)
       /\ last'.op = "create"
          => \A destination_chain \in RegistryChains :
                ~is_chain_supported(destination_chain)
                => \A sender \in RegistrySenders, recipient \in RegistryRecipients,
                      amount \in RegistryAmounts \ {0},
                      message_type \in RegistryMessageTypes,
                      block_timestamp \in BlockTimestamps :
                      create_cross_chain_payment(sender, recipient, amount,
                                                 destination_chain, message_type,
                                                 block_timestamp)
                      => last'.ret = Err("InvalidChain")]_vars

\* the bound relayer just settled a payment whose destination chain the owner had set
\* to unsupported after the payment was created
C28_Witness ==
    /\ last = [op |-> "execute", ret |-> Ok("unit")]
    /\ events[1].executor # owner
    /\ ~is_chain_supported(payment_destination_chains[events[1].payment_id])
    /\ GetOr(owner_configured, payment_destination_chains[events[1].payment_id], TRUE) = FALSE

----------------------------------------------------------------------------
(* C22: relayer rebinding takes effect on the next execute.  Authorization   *)
(* of execute_cross_chain_payment(id) uses the relayer bound to the          *)
(* payment's destination chain at the time of the execute call, not at       *)
(* creation time; after the owner rebinds chain c from relayer R1 to R2 (R1  *)
(* not the owner), execute of a still-pending payment to c by R1 returns     *)
(* UnauthorizedAccess and by R2 succeeds.                                    *)
C22_RebindingTakesEffect ==
    [][last'.op = "execute"
       => \A id \in PaymentIds :
             (Contains(payment_senders, id) /\ ~GetOr(payment_executed, id, FALSE))
             => \A caller \in Accounts :
                   execute_cross_chain_payment(caller, id)
                   => LET bound == Get(relayers, payment_destination_chains[id])
                      IN  /\ last'.ret.ok <=> (caller = owner \/ caller = bound)
                          /\ (/\ Contains(rebound_from, id)
                              /\ caller = rebound_from[id]
                              /\ caller # owner
                              /\ caller # bound)
                             => last'.ret = Err("UnauthorizedAccess")
                          /\ (Contains(rebound_from, id) /\ caller = bound)
                             => last'.ret = Ok("unit")]_vars

\* the relayer the owner bound in place of another one, while the payment was
\* pending, just settled that payment
C22_Witness ==
    /\ last = [op |-> "execute", ret |-> Ok("unit")]
    /\ Contains(rebound_from, events[1].payment_id)
    /\ events[1].executor # owner
    /\ events[1].executor # rebound_from[events[1].payment_id]
    /\ events[1].executor = Get(relayers, payment_destination_chains[events[1].payment_id])

----------------------------------------------------------------------------
(* C29: the owner is a universal fallback relayer.  In every reachable       *)
(* state, for every stored payment with executed = false, execute called by  *)
(* the owner succeeds whatever relayer (if any) is bound to its destination  *)
(* chain; hence, under weak fairness on the owner's execute, every created   *)
(* payment is eventually executed: until the step that executes it, a       *)
(* pending payment stays stored as it was created.                           *)
C29_OwnerFallback ==
    [][/\ \A id \in PendingIds : execute_validation(owner, id) = "Ok"
       /\ last'.op = "execute"
          => \A id \in PendingIds :
                execute_cross_chain_payment(owner, id)
                => (last'.ret = Ok("unit") /\ GetOr(payment_executed', id, FALSE))
       /\ \A id \in PendingIds :
             /\ Contains(payment_senders', id)
             /\ CreationFields(get_payment_info(id)') = CreationFields(get_payment_info(id))]_vars

----------------------------------------------------------------------------
(* C30: per-account ledger equation.  In every reachable state in which no   *)
(* credit has been clamped at the maximum balance, the balance of every      *)
(* account equals its deposits, minus the amounts of the payments it created *)
(* as sender, plus the amounts of the executed payments it received; in      *)
(* particular an account that never deposited and never received an executed *)
(* payment has balance 0 and no create by it is accepted.                    *)
C30_LedgerEquation ==
    ~any_clamped
    => /\ \A a \in Accounts : get_balance(a) = ledger[a]
       /\ \A a \in Accounts \ funded :
             /\ get_balance(a) = 0
             /\ \A amount \in Amounts, destination_chain \in Chains :
                   create_validation(a, amount, destination_chain) # "Ok"

\* an execute has just credited its recipient without clamping, after a
\* deposit and a create by another account, while a third account was never
\* funded
C30_Witness ==
    /\ last.op = "execute"
    /\ last.ret.ok
    /\ ~any_clamped
    /\ ledger[events[1].recipient] > 0
    /\ deposited <= MaxDeposited
    /\ \E a \in funded : a # events[1].recipient /\ ledger[a] < deposited
    /\ Accounts \ funded # {}

----------------------------------------------------------------------------
(* C23: send_payment.  A send_payment(to, amount) with caller # to,          *)
(* amount > 0 and a caller's balance of at least amount succeeds: it         *)
(* decreases the caller's balance by exactly amount, increases to's balance  *)
(* by amount, returns the transaction counter of before the call and         *)
(* increments that counter by one; and no send_payment call changes the sum  *)
(* of all balances.                                                          *)
C23_SendPaymentEffect ==
    [][last'.op = "send_payment"
       => /\ \A from \in Accounts, to \in Accounts, amount \in Amounts :
                (/\ from # to
                 /\ amount > 0
                 /\ balance_of(from) >= amount
                 /\ send_payment(from, to, amount))
                => /\ last'.ret = Ok(transaction_counter)
                   /\ balance_of(from)' = balance_of(from) - amount
                   /\ balance_of(to)' = balance_of(to) + amount
                   /\ transaction_counter' = transaction_counter + 1
          /\ SumPayBalances' = SumPayBalances]_vars

----------------------------------------------------------------------------
(* C24: validation of the Payment contract.  send_payment and                *)
(* initiate_cross_chain_payment check, in this order, caller = to ->         *)
(* SelfPayment, amount = 0 -> InvalidAmount, caller's balance < amount ->    *)
(* InsufficientBalance, and accept the call otherwise; whenever either       *)
(* returns an error, all balances and the transaction counter are as before  *)
(* the call.                                                                 *)
C24_PaymentValidation ==
    [][last'.op \in {"send_payment", "initiate_cross_chain_payment"}
       => /\ \A from \in Accounts, to \in Accounts, amount \in Amounts :
                (\/ send_payment(from, to, amount)
                 \/ \E destination_chain \in PaymentChains :
                       initiate_cross_chain_payment(from, to, amount, destination_chain))
                => IF from = to THEN last'.ret = Err("SelfPayment")
                   ELSE IF amount = 0 THEN last'.ret = Err("InvalidAmount")
                   ELSE IF balance_of(from) < amount
                        THEN last'.ret = Err("InsufficientBalance")
                   ELSE last'.ret.ok
          /\ ~last'.ret.ok
             => /\ pay_balances' = pay_balances
                /\ transaction_counter' = transaction_counter]_vars

\* a payment to oneself of amount 0 has just been refused as SelfPayment
\* by a caller who has sent a payment before
C24_Witness ==
    /\ last.op \in {"send_payment", "initiate_cross_chain_payment"}
    /\ last.args.from = last.args.to
    /\ last.args.amount = 0
    /\ last.ret = Err("SelfPayment")
    /\ transaction_counter > 0
    /\ SumPayBalances > 0

----------------------------------------------------------------------------
(* C25: completion of a bill.  In every reachable state and for every bill,  *)
(* paid_count <= participant_count, and completed is true if and only if     *)
(* paid_count = participant_count; a successful pay_bill increases the       *)
(* paid_count of its bill by one; once completed is true it stays true, and  *)
(* every further pay_bill on that bill returns BillAlreadyCompleted without  *)
(* changing state.                                                           *)
C25_BillCompletion ==
    [][/\ \A bill_id \in BillIds :
             Contains(bill_creators, bill_id)
             => /\ get_bill_info(bill_id).paid_count <= get_bill_info(bill_id).participant_count
                /\ get_bill_info(bill_id).completed
                   <=> (get_bill_info(bill_id).paid_count
                          = get_bill_info(bill_id).participant_count)
       /\ last'.op = "pay_bill"
          => \A payer \in Accounts, bill_id \in BillIds, amount \in BillAmounts :
                pay_bill(payer, bill_id, amount)
                => /\ last'.ret.ok
                      => (get_bill_info(bill_id).paid_count'
                            = get_bill_info(bill_id).paid_count + 1)
                   /\ GetOr(bill_completed, bill_id, FALSE)
                      => /\ last'.ret = Err("BillAlreadyCompleted")
                         /\ UNCHANGED bill_storage
       /\ \A bill_id \in BillIds :
             GetOr(bill_completed, bill_id, FALSE) => GetOr(bill_completed', bill_id, FALSE)]_vars

----------------------------------------------------------------------------
(* C26: validation of create_bill.  create_bill returns InvalidAmount when   *)
(* total_amount = 0, otherwise InvalidParticipants when the participant list *)
(* is empty or its length differs from that of the individual-amount list,   *)
(* otherwise InvalidAmount when the individual amounts do not sum to         *)
(* total_amount; on any error the bill counter, all bill records and all     *)
(* user bill counts are unchanged; on success it returns the bill counter of *)
(* before the call, stores the bill with paid_count = 0 and completed =      *)
(* false, and increments the counter by one.                                 *)
C26_CreateBillValidation ==
    [][last'.op = "create_bill"
       => \A creator \in BillCreators, total_amount \in BillTotals,
             participants \in ParticipantLists, individual_amounts \in AmountLists,
             deadline \in Deadlines :
             create_bill(creator, total_amount, participants, individual_amounts, deadline)
             => /\ IF total_amount = 0 THEN last'.ret = Err("InvalidAmount")
                   ELSE IF participants = <<>> \/ Len(participants) # Len(individual_amounts)
                        THEN last'.ret = Err("InvalidParticipants")
                   ELSE IF iter_sum(individual_amounts) # total_amount
                        THEN last'.ret = Err("InvalidAmount")
                   ELSE last'.ret = Ok(bill_counter)
                /\ ~last'.ret.ok => UNCHANGED bill_storage
                /\ last'.ret.ok
                   => /\ \E bill_id \in BillIds :
                            /\ bill_id = bill_counter
                            /\ get_bill_info(bill_id)' =
                                 [creator |-> creator, total_amount |-> total_amount,
                                  participant_count |-> Len(participants), paid_count |-> 0,
                                  completed |-> FALSE, deadline |-> deadline]
                      /\ bill_counter' = bill_counter + 1]_vars

----------------------------------------------------------------------------
(* C31: locked funds of the Payment contract.  In every reachable state the  *)
(* sum of all balances plus the sum of the amounts of all successful         *)
(* initiate_cross_chain_payment calls equals total_supply, which never       *)
(* changes; a successful initiate_cross_chain_payment debits the caller by   *)
(* exactly amount, credits no account, and returns the value of the counter  *)
(* from which send_payment takes its ids; and no operation credits a locked  *)
(* amount back: the sum of the balances never grows.                         *)
C31_LockedFunds ==
    [][/\ SumPayBalances + locked = total_supply
       /\ SumPayBalances' + locked' = total_supply'
       /\ total_supply' = total_supply
       /\ SumPayBalances' <= SumPayBalances
       /\ last'.op \in {"send_payment", "initiate_cross_chain_payment"} /\ last'.ret.ok
          => /\ last'.ret = Ok(transaction_counter)
             /\ \A from \in Accounts, to \in Accounts, amount \in Amounts,
                   destination_chain \in PaymentChains :
                   initiate_cross_chain_payment(from, to, amount, destination_chain)
                   => /\ balance_of(from)' = balance_of(from) - amount
                      /\ \A account \in Accounts \ {from} :
                            balance_of(account)' = balance_of(account)
                      /\ locked' = locked + amount]_vars

\* an initiate_cross_chain_payment has just locked funds under the id that
\* follows the one of an earlier payment, and part of the supply is still held
C31_Witness ==
    /\ last.op = "initiate_cross_chain_payment"
    /\ last.ret = Ok(1)
    /\ locked > 0
    /\ SumPayBalances > 0
    /\ events[1].amount = locked

----------------------------------------------------------------------------
\* every account listed as a participant of the bill has paid it
AllListedPaid(bill_id) ==
    \A index \in 0..(GetOr(bill_participant_counts, bill_id, 0) - 1) :
        Contains(bill_participants, <<bill_id, index>>)
        => GetOr(bill_payments, <<bill_id, bill_participants[<<bill_id, index>>]>>, FALSE)

(* C32: every bill can complete.  For every created bill, also one whose     *)
(* participant list names the same account more than once, once every        *)
(* account listed as a participant has paid its share the bill is completed; *)
(* and a pay_bill by an account that has already paid an uncompleted,        *)
(* unexpired bill returns AlreadyPaid without changing paid_count.           *)
C32_EveryBillCompletes ==
    [][/\ \A bill_id \in BillIds :
             (Contains(bill_creators', bill_id) /\ AllListedPaid(bill_id)')
             => GetOr(bill_completed', bill_id, FALSE)
       /\ last'.op = "pay_bill"
          => \A payer \in Accounts, bill_id \in BillIds, amount \in BillAmounts :
                (/\ Contains(bill_creators, bill_id)
                 /\ ~GetOr(bill_completed, bill_id, FALSE)
                 /\ block_time <= GetOr(bill_deadlines, bill_id, 0)
                 /\ GetOr(bill_payments, <<bill_id, payer>>, FALSE)
                 /\ pay_bill(payer, bill_id, amount))
                => /\ last'.ret = Err("AlreadyPaid")
                   /\ bill_paid_counts' = bill_paid_counts]_vars

====
